---- MODULE Spec2Model ----
(***************************************************************************)
(* Model of the crawl front end: the App component (frontend/src/App.js),  *)
(* the task client (frontend/src/services/crawlService.js) and the URL     *)
(* validator (frontend/src/utils/validateUrl.js).                          *)
(*                                                                         *)
(* One action per handler.  An async handler is split at its await: the    *)
(* part before the await issues the request, the part after it runs when   *)
(* the response is delivered.  State updates made by one handler run are   *)
(* applied together (React batches them into one render).                  *)
(***************************************************************************)
EXTENDS Integers, Sequences, FiniteSets, TLC

(* ------------------------------ bounds -------------------------------- *)

\* accepted starts (submit requests) in one behaviour
MaxStarts == 2
\* status fetches issued in one behaviour, by all poll loops together
MaxPolls == 2

Gens == 1 .. MaxStarts

(* ---------------------------- URL validator --------------------------- *)

\* A URL string is a sequence of lexical tokens; '' is the empty sequence.
SchemeTokens == {"http://", "https://"}
\* tokens matching [a-z]{2,}
LetterWords == {"example", "other", "com", "not", "url"}
\* tokens matching [a-z\d]([a-z\d-]*[a-z\d])*
LabelTokens == LetterWords \cup {"a", "127", "0", "1"}
\* tokens matching \d{1,3}
DigitTokens == {"127", "0", "1"}
PortTokens == {":8000"}
PathTokens == {"/", "/about"}
QueryTokens == {"?q=1"}
FragmentTokens == {"#top"}

\* (([a-z\d]([a-z\d-]*[a-z\d])*)\.)+[a-z]{2,}
IsDomain(h) ==
    /\ Len(h) >= 3
    /\ Len(h) % 2 = 1
    /\ \A i \in 1 .. Len(h) :
          IF i % 2 = 1 THEN h[i] \in LabelTokens ELSE h[i] = "."
    /\ h[Len(h)] \in LetterWords

\* (\d{1,3}\.){3}\d{1,3}
IsIPv4(h) ==
    /\ Len(h) = 7
    /\ \A i \in 1 .. 7 :
          IF i % 2 = 1 THEN h[i] \in DigitTokens ELSE h[i] = "."

TailRank(tok) ==
    IF tok \in PortTokens THEN 1
    ELSE IF tok \in PathTokens THEN 2
    ELSE IF tok \in QueryTokens THEN 3
    ELSE IF tok \in FragmentTokens THEN 4
    ELSE 0

\* (\:\d+)?(\/[-a-z\d%_.~+]*)*(\?[;&a-z\d%_.~+=-]*)?(\#[-a-z\d_]*)?$
IsTail(t) ==
    /\ \A i \in 1 .. Len(t) : TailRank(t[i]) > 0
    /\ \A i \in 1 .. Len(t) : \A j \in 1 .. Len(t) :
          i < j => /\ TailRank(t[i]) <= TailRank(t[j])
                   /\ (TailRank(t[i]) = TailRank(t[j]) => TailRank(t[i]) = 2)

validateUrl(url) ==
    LET rest == IF Len(url) > 0 /\ url[1] \in SchemeTokens
                THEN SubSeq(url, 2, Len(url)) ELSE url
    IN  \E n \in 1 .. Len(rest) :
           /\ IsDomain(SubSeq(rest, 1, n)) \/ IsIPv4(SubSeq(rest, 1, n))
           /\ IsTail(SubSeq(rest, n + 1, Len(rest)))

\* what the user can have in the input field
Inputs ==
    { <<"https://", "example", ".", "com">>,
      <<"not", " ", "a", " ", "url">> }

Keys == {"Enter", "a"}

(* ------------------------------ values -------------------------------- *)

\* the value of a property that the object does not have
Undefined == "undefined"

\* ids the backend gives to the tasks it creates, by order of the start
TaskIdOf(g) == <<"t1", "t2", "t3", "t4", "t5", "t6">>[g]

\* useState({}) of crawledData
EmptyData == [u \in {} |-> <<>>]

\* the result of the crawl of task g: visited url -> links found
CrawledDataOf(g, seed) ==
    [u \in {seed} |-> << <<"link", TaskIdOf(g)>> >>]

\* the response of a fetch that rejects: there is none
NoResponse == [ok |-> FALSE, status |-> 0, body |-> [none |-> TRUE]]

Field(obj, name) == IF name \in DOMAIN obj THEN obj[name] ELSE Undefined

(* ------------------------------ state --------------------------------- *)

VARIABLES
    startUrl,      \* useState: the URL input by the user
    taskId,        \* useState: id of the crawling task
    taskStatus,    \* useState: status of the crawling task
    crawledData,   \* useState: data retrieved from the crawl
    loading,       \* useState: loading indicator
    isUrlValid,    \* useState: validity of the entered URL
    errorMessage,  \* useState: error message, a sequence of text parts
    submits,       \* POST /start-crawl requests in flight
    fetches,       \* GET /task-status/:id requests in flight
    timer,         \* per start: the interval timer of its checkTaskStatus
    pollId,        \* per start: the taskId argument of its checkTaskStatus
    issued,        \* per start: status fetches issued by its timer so far
    lastApplied,   \* per start: number of the fetch whose response was applied last
    backend,       \* per start: the state of its task in the backend
    seedOf,        \* per start: the start_url of its submit request
    nstarts,       \* accepted starts so far
    mounted,       \* the App component is mounted
    client         \* a call of a crawlService function on its own

vars == <<startUrl, taskId, taskStatus, crawledData, loading, isUrlValid,
          errorMessage, submits, fetches, timer, pollId, issued, lastApplied,
          backend, seedOf, nstarts, mounted, client>>

uiVars == <<startUrl, taskId, taskStatus, crawledData, loading, isUrlValid,
            errorMessage>>
netVars == <<submits, fetches, timer, pollId, issued, lastApplied, backend,
             seedOf, nstarts>>
auxVars == <<mounted, client>>

\* no call of a crawlService function on its own is going on
NoCall == [phase |-> "idle"]

Init ==
    /\ startUrl = <<>>
    /\ taskId = ""
    /\ taskStatus = ""
    /\ crawledData = EmptyData
    /\ loading = FALSE
    /\ isUrlValid = TRUE
    /\ errorMessage = <<>>
    /\ submits = {}
    /\ fetches = {}
    /\ timer = [g \in Gens |-> "none"]
    /\ pollId = [g \in Gens |-> ""]
    /\ issued = [g \in Gens |-> 0]
    /\ lastApplied = [g \in Gens |-> 0]
    /\ backend = [g \in Gens |-> "none"]
    /\ seedOf = [g \in Gens |-> <<>>]
    /\ nstarts = 0
    /\ mounted = TRUE
    /\ client = NoCall

RECURSIVE SumTo(_, _)
SumTo(f, n) == IF n = 0 THEN 0 ELSE f[n] + SumTo(f, n - 1)

\* status fetches issued so far
TotalIssued == SumTo(issued, MaxStarts)

(* ------------------------------ view ---------------------------------- *)

\* {!loading && taskId && <TaskInfo .../>}
ShowsTaskInfo == ~loading /\ taskId # "" /\ taskId # Undefined
\* {taskStatus === 'completed' && ... crawledData ...}
ShowsCrawledData == taskStatus = "completed"
\* disabled={loading || !isUrlValid || startUrl.length === 0}
ButtonDisabled == loading \/ ~isUrlValid \/ Len(startUrl) = 0

(* ---------------------------- task client ----------------------------- *)

\* crawlService.startCrawl after its fetch settles: transportOk is FALSE
\* when fetch itself rejects, otherwise response is the HTTP response
startCrawlService(transportOk, response) ==
    IF ~transportOk
    THEN [threw |-> TRUE, message |-> <<"Failed to fetch">>, data |-> [none |-> TRUE]]
    ELSE IF ~response.ok
    THEN [threw |-> TRUE,
          message |-> <<"HTTP error! status: ", response.status>>,
          data |-> [none |-> TRUE]]
    ELSE [threw |-> FALSE, message |-> <<>>, data |-> response.body]

\* crawlService.checkTaskStatus without the branch for 404
checkTaskStatusServiceNo404(transportOk, response) ==
    IF ~transportOk
    THEN [threw |-> TRUE, message |-> <<"Failed to fetch">>, data |-> [none |-> TRUE]]
    ELSE IF ~response.ok
    THEN [threw |-> TRUE,
          message |-> <<"HTTP error! status: ", response.status>>,
          data |-> [none |-> TRUE]]
    ELSE [threw |-> FALSE, message |-> <<>>, data |-> response.body]

\* crawlService.checkTaskStatus after its fetch settles
checkTaskStatusService(transportOk, response) ==
    IF ~transportOk
    THEN [threw |-> TRUE, message |-> <<"Failed to fetch">>, data |-> [none |-> TRUE]]
    ELSE IF ~response.ok
    THEN IF response.status = 404
         THEN [threw |-> TRUE, message |-> <<"Task not found.">>,
               data |-> [none |-> TRUE]]
         ELSE [threw |-> TRUE,
               message |-> <<"HTTP error! status: ", response.status>>,
               data |-> [none |-> TRUE]]
    ELSE [threw |-> FALSE, message |-> <<>>, data |-> response.body]

(* ------------------------------ backend ------------------------------- *)

\* 200 body of POST /start-crawl, with the id under the name the client reads
SubmitBodies(g, seed) ==
    { [task_id |-> TaskIdOf(g), status |-> "initiated", startUrl |-> seed] }

SubmitResponses(g, seed) ==
    { [ok |-> TRUE, status |-> 200, body |-> b] : b \in SubmitBodies(g, seed) }
    \cup { [ok |-> FALSE, status |-> 400, body |-> [error |-> "Invalid URL provided"]] }

\* the task the backend knows under id, 0 when there is none
TaskOfId(id) ==
    IF \E g \in Gens : backend[g] # "none" /\ TaskIdOf(g) = id
    THEN CHOOSE g \in Gens : backend[g] # "none" /\ TaskIdOf(g) = id
    ELSE 0

\* 200 body of GET /task-status/:id for task g
StatusBody(g) ==
    IF backend[g] = "completed"
    THEN [id |-> TaskIdOf(g), status |-> backend[g], startUrl |-> seedOf[g],
          crawled_data |-> CrawledDataOf(g, seedOf[g])]
    ELSE [id |-> TaskIdOf(g), status |-> backend[g], startUrl |-> seedOf[g]]

\* what the backend answers to GET /task-status/:id when it works
StatusAnswer(id) ==
    IF TaskOfId(id) = 0
    THEN [ok |-> FALSE, status |-> 404, body |-> [detail |-> "Task not found."]]
    ELSE [ok |-> TRUE, status |-> 200, body |-> StatusBody(TaskOfId(id))]

\* 404 NOT FOUND: the backend does not know the id (any more)
NotFound == [ok |-> FALSE, status |-> 404, body |-> [detail |-> "Task not found."]]

\* 500 INTERNAL SERVER ERROR, at any time
ServerError ==
    [ok |-> FALSE, status |-> 500, body |-> [error |-> "Details about the error"]]

(* ------------------------------ handlers ------------------------------ *)

handleUrlChange(value) ==
    /\ startUrl' = value
    /\ isUrlValid' = TRUE
    /\ UNCHANGED <<taskId, taskStatus, crawledData, loading, errorMessage>>
    /\ UNCHANGED netVars
    /\ UNCHANGED auxVars

\* startCrawl without its validation and early return
startCrawlUnvalidated ==
    /\ UNCHANGED auxVars
    /\ nstarts < MaxStarts
    /\ loading' = TRUE
    /\ isUrlValid' = TRUE
    /\ errorMessage' = <<>>
    /\ nstarts' = nstarts + 1
    /\ submits' = submits \cup {[gen |-> nstarts + 1, seed |-> startUrl]}
    /\ seedOf' = [seedOf EXCEPT ![nstarts + 1] = startUrl]
    /\ UNCHANGED <<startUrl, taskId, taskStatus, crawledData>>
    /\ UNCHANGED <<fetches, timer, pollId, issued, lastApplied, backend>>

\* startCrawl that does not clear the error message
startCrawlKeepsError ==
    IF ~validateUrl(startUrl)
    THEN /\ UNCHANGED auxVars
         /\ isUrlValid' = FALSE
         /\ errorMessage' = <<"Invalid URL.">>
         /\ UNCHANGED <<startUrl, taskId, taskStatus, crawledData, loading>>
         /\ UNCHANGED netVars
    ELSE /\ UNCHANGED auxVars
         /\ nstarts < MaxStarts
         /\ loading' = TRUE
         /\ isUrlValid' = TRUE
         /\ nstarts' = nstarts + 1
         /\ submits' = submits \cup {[gen |-> nstarts + 1, seed |-> startUrl]}
         /\ seedOf' = [seedOf EXCEPT ![nstarts + 1] = startUrl]
         /\ UNCHANGED <<startUrl, taskId, taskStatus, crawledData, errorMessage>>
         /\ UNCHANGED <<fetches, timer, pollId, issued, lastApplied, backend>>

\* startCrawl up to its await
startCrawl ==
    IF ~validateUrl(startUrl)
    THEN /\ UNCHANGED auxVars
         /\ isUrlValid' = FALSE
         /\ errorMessage' = <<"Invalid URL.">>
         /\ UNCHANGED <<startUrl, taskId, taskStatus, crawledData, loading>>
         /\ UNCHANGED netVars
    ELSE /\ UNCHANGED auxVars
         /\ nstarts < MaxStarts
         /\ loading' = TRUE
         /\ isUrlValid' = TRUE
         /\ errorMessage' = <<>>
         /\ nstarts' = nstarts + 1
         /\ submits' = submits \cup {[gen |-> nstarts + 1, seed |-> startUrl]}
         /\ seedOf' = [seedOf EXCEPT ![nstarts + 1] = startUrl]
         /\ UNCHANGED <<startUrl, taskId, taskStatus, crawledData>>
         /\ UNCHANGED <<fetches, timer, pollId, issued, lastApplied, backend>>

handleKeyPress(key) ==
    IF key = "Enter"
    THEN IF validateUrl(startUrl)
         THEN startCrawl
         ELSE /\ isUrlValid' = FALSE
              /\ UNCHANGED <<startUrl, taskId, taskStatus, crawledData, loading,
                             errorMessage>>
              /\ UNCHANGED netVars
              /\ UNCHANGED auxVars
    ELSE UNCHANGED vars

\* checkTaskStatus(id) called by the start g: creates the interval timer
checkTaskStatus(g, id) ==
    /\ timer' = [timer EXCEPT ![g] = "active"]
    /\ pollId' = [pollId EXCEPT ![g] = id]

\* startCrawl after its await with a catch block that leaves loading alone
startCrawlResumeKeepsLoading(s, transportOk, response) ==
    LET r == startCrawlService(transportOk, response)
    IN  /\ submits' = submits \ {s}
        /\ IF ~r.threw
           THEN /\ taskId' = Field(r.data, "task_id")
                /\ checkTaskStatus(s.gen, Field(r.data, "task_id"))
                /\ UNCHANGED <<loading, errorMessage>>
           ELSE /\ errorMessage' = <<"Network error: ">> \o r.message
                /\ UNCHANGED <<loading, taskId, timer, pollId>>
        /\ UNCHANGED <<startUrl, taskStatus, crawledData, isUrlValid>>
        /\ UNCHANGED <<fetches, issued, lastApplied, seedOf, nstarts>>
        /\ UNCHANGED auxVars

\* startCrawl from its await on, for the submit request s
startCrawlResume(s, transportOk, response) ==
    LET r == startCrawlService(transportOk, response)
    IN  /\ submits' = submits \ {s}
        /\ IF ~r.threw
           THEN /\ taskId' = Field(r.data, "task_id")
                /\ checkTaskStatus(s.gen, Field(r.data, "task_id"))
                /\ UNCHANGED <<loading, errorMessage>>
           ELSE /\ errorMessage' = <<"Network error: ">> \o r.message
                /\ loading' = FALSE
                /\ UNCHANGED <<taskId, timer, pollId>>
        /\ UNCHANGED <<startUrl, taskStatus, crawledData, isUrlValid>>
        /\ UNCHANGED <<fetches, issued, lastApplied, seedOf, nstarts>>
        /\ UNCHANGED auxVars

\* the interval callback of the timer of start g, up to its await; the
\* request reaches the backend at once and answer is what the backend
\* answers to it when it works, which then travels for any time
pollTick(g, answer) ==
    /\ timer[g] = "active"
    /\ TotalIssued < MaxPolls
    /\ issued' = [issued EXCEPT ![g] = @ + 1]
    /\ fetches' = fetches \cup
          {[gen |-> g, seq |-> issued[g] + 1, id |-> pollId[g], resp |-> answer]}
    /\ UNCHANGED uiVars
    /\ UNCHANGED <<submits, timer, pollId, lastApplied, backend, seedOf, nstarts>>
    /\ UNCHANGED auxVars

\* the interval callback that takes only "completed" for the end of a task
pollResumeCompletedOnly(f, transportOk, response) ==
    LET r == checkTaskStatusService(transportOk, response)
        status == Field(r.data, "status")
    IN  /\ fetches' = fetches \ {f}
        /\ IF ~r.threw
           THEN /\ taskStatus' = status
                /\ lastApplied' = [lastApplied EXCEPT ![f.gen] = f.seq]
                /\ IF status = "completed"
                   THEN /\ timer' = [timer EXCEPT ![f.gen] = "cleared"]
                        /\ loading' = FALSE
                        /\ IF status = "completed"
                           THEN /\ crawledData' = Field(r.data, "crawled_data")
                                /\ UNCHANGED errorMessage
                           ELSE /\ errorMessage' = <<"Task failed.">>
                                /\ UNCHANGED crawledData
                   ELSE UNCHANGED <<timer, loading, crawledData, errorMessage>>
           ELSE /\ errorMessage' = <<"Network error: ">> \o r.message
                /\ timer' = [timer EXCEPT ![f.gen] = "cleared"]
                /\ loading' = FALSE
                /\ UNCHANGED <<taskStatus, crawledData, lastApplied>>
        /\ UNCHANGED <<startUrl, taskId, isUrlValid>>
        /\ UNCHANGED <<submits, pollId, issued, backend, seedOf, nstarts>>
        /\ UNCHANGED auxVars

\* pollResume whose catch block does not clear the interval
pollResumeKeepsTimer(f, transportOk, response) ==
    LET r == checkTaskStatusService(transportOk, response)
        status == Field(r.data, "status")
    IN  /\ fetches' = fetches \ {f}
        /\ IF ~r.threw
           THEN /\ taskStatus' = status
                /\ lastApplied' = [lastApplied EXCEPT ![f.gen] = f.seq]
                /\ IF status = "completed" \/ status = "failed"
                   THEN /\ timer' = [timer EXCEPT ![f.gen] = "cleared"]
                        /\ loading' = FALSE
                        /\ IF status = "completed"
                           THEN /\ crawledData' = Field(r.data, "crawled_data")
                                /\ UNCHANGED errorMessage
                           ELSE /\ errorMessage' = <<"Task failed.">>
                                /\ UNCHANGED crawledData
                   ELSE UNCHANGED <<timer, loading, crawledData, errorMessage>>
           ELSE /\ errorMessage' = <<"Network error: ">> \o r.message
                /\ loading' = FALSE
                /\ UNCHANGED <<taskStatus, crawledData, lastApplied, timer>>
        /\ UNCHANGED <<startUrl, taskId, isUrlValid>>
        /\ UNCHANGED <<submits, pollId, issued, backend, seedOf, nstarts>>
        /\ UNCHANGED auxVars

\* the interval callback from its await on, for the status fetch f
pollResume(f, transportOk, response) ==
    LET r == checkTaskStatusService(transportOk, response)
        status == Field(r.data, "status")
    IN  /\ fetches' = fetches \ {f}
        /\ IF ~r.threw
           THEN /\ taskStatus' = status
                /\ lastApplied' = [lastApplied EXCEPT ![f.gen] = f.seq]
                /\ IF status = "completed" \/ status = "failed"
                   THEN /\ timer' = [timer EXCEPT ![f.gen] = "cleared"]
                        /\ loading' = FALSE
                        /\ IF status = "completed"
                           THEN /\ crawledData' = Field(r.data, "crawled_data")
                                /\ UNCHANGED errorMessage
                           ELSE /\ errorMessage' = <<"Task failed.">>
                                /\ UNCHANGED crawledData
                   ELSE UNCHANGED <<timer, loading, crawledData, errorMessage>>
           ELSE /\ errorMessage' = <<"Network error: ">> \o r.message
                /\ timer' = [timer EXCEPT ![f.gen] = "cleared"]
                /\ loading' = FALSE
                /\ UNCHANGED <<taskStatus, crawledData, lastApplied>>
        /\ UNCHANGED <<startUrl, taskId, isUrlValid>>
        /\ UNCHANGED <<submits, pollId, issued, backend, seedOf, nstarts>>
        /\ UNCHANGED auxVars

(* ------------------------------ actions ------------------------------- *)

\* the user edits the input field
UrlChange == \E value \in Inputs : handleUrlChange(value)

\* the user presses a key in the input field
KeyPress == \E key \in Keys : handleKeyPress(key)

\* the user clicks the Start button
ClickStart == ~ButtonDisabled /\ startCrawl

\* the submit request s settles; on 200 the backend has created the task
SubmitSettles ==
    \E s \in submits :
       \/ /\ startCrawlResume(s, FALSE, NoResponse)
          /\ UNCHANGED backend
       \/ \E response \in SubmitResponses(s.gen, s.seed) :
             /\ startCrawlResume(s, TRUE, response)
             /\ backend' = IF response.ok
                           THEN [backend EXCEPT ![s.gen] = "initiated"]
                           ELSE backend

\* an interval timer fires
TimerTick ==
    \E g \in Gens : pollTick(g, StatusAnswer(pollId[g]))

\* the crawl of a task advances in the backend; only a later status request
\* of its poll loop can observe it, so it is followed while one can come
BackendProgress ==
    \E g \in Gens :
       /\ timer[g] = "active"
       /\ TotalIssued < MaxPolls
       /\ \/ backend[g] = "initiated" /\ backend' = [backend EXCEPT ![g] = "in_progress"]
          \/ backend[g] = "in_progress" /\ backend' = [backend EXCEPT ![g] = "completed"]
          \/ backend[g] = "in_progress" /\ backend' = [backend EXCEPT ![g] = "failed"]
       /\ UNCHANGED uiVars
       /\ UNCHANGED <<submits, fetches, timer, pollId, issued, lastApplied, seedOf, nstarts>>
       /\ UNCHANGED auxVars

\* a status fetch settles: the transport fails, or the backend has dropped
\* the task, or the server fails, or the answer of the backend arrives
StatusSettles ==
    \E f \in fetches :
       \/ pollResume(f, FALSE, NoResponse)
       \/ pollResume(f, TRUE, NotFound)
       \/ pollResume(f, TRUE, ServerError)
       \/ pollResume(f, TRUE, f.resp)

Next ==
    \/ UrlChange
    \/ KeyPress
    \/ ClickStart
    \/ SubmitSettles
    \/ TimerTick
    \/ BackendProgress
    \/ StatusSettles

Spec == Init /\ [][Next]_vars

(* ------------------------------ claims -------------------------------- *)

ActiveTimers == {g \in Gens : timer[g] = "active"}

\* a start through the button or through the Enter key
StartAction == ClickStart \/ handleKeyPress("Enter")

\* the status fetch f settles with a failure or with status 'failed'
PollFails(f) ==
    \/ pollResume(f, FALSE, NoResponse)
    \/ pollResume(f, TRUE, NotFound)
    \/ pollResume(f, TRUE, ServerError)
    \/ /\ f.resp.ok
       /\ f.resp.body.status = "failed"
       /\ pollResume(f, TRUE, f.resp)
    \/ /\ ~f.resp.ok
       /\ pollResume(f, TRUE, f.resp)

\* the submit request s settles with a failure
SubmitFails(s) ==
    \/ startCrawlResume(s, FALSE, NoResponse)
    \/ \E response \in SubmitResponses(s.gen, s.seed) :
          ~response.ok /\ startCrawlResume(s, TRUE, response)

\* C1: at every moment at most one poll loop (interval timer) is active.
C1_AtMostOnePollLoop == Cardinality(ActiveTimers) <= 1

\* C2: once a newer start has been issued, the response to a status fetch of
\* an earlier task changes none of taskStatus, crawledData, errorMessage,
\* loading.
C2_StaleResponseIgnored ==
    [][\A f \in fetches :
          (f \notin fetches' /\ f.gen < nstarts)
             => UNCHANGED <<taskStatus, crawledData, errorMessage, loading>>]_vars

\* C3: once the current task has its terminal outcome applied (its timer is
\* cleared), a status response of that task that arrives later changes none
\* of taskStatus, crawledData, errorMessage, loading.
C3_TerminalIsFinal ==
    [][\A f \in fetches :
          (f \notin fetches' /\ f.gen = nstarts /\ timer[f.gen] = "cleared")
             => UNCHANGED <<taskStatus, crawledData, errorMessage, loading>>]_vars

\* C4: while the submit request of an accepted start is in flight and the
\* page is loading (and no other request or poll loop is in progress),
\* nothing of the previous task is left in taskId, taskStatus, crawledData.
C4_FreshLifecycle ==
    (loading /\ Cardinality(submits) = 1 /\ fetches = {} /\ ActiveTimers = {})
       => taskId = "" /\ taskStatus = "" /\ crawledData = EmptyData

\* C5: a start (button or Enter key) with an input that validateUrl rejects
\* issues no request and leaves taskId, taskStatus, crawledData, loading and
\* the poll loops as they are.
C5_RejectedStartIsNoOp ==
    [][(StartAction /\ ~validateUrl(startUrl))
          => UNCHANGED <<taskId, taskStatus, crawledData, loading, submits,
                         fetches, timer, pollId, issued, nstarts>>]_vars

\* a rejected click on the button has happened after a task was submitted
C5_Witness ==
    /\ ~validateUrl(startUrl)
    /\ ~isUrlValid
    /\ errorMessage = <<"Invalid URL.">>
    /\ taskId # ""

\* C6: a start (button or Enter key) with an input that validateUrl accepts
\* sets loading, clears errorMessage and issues exactly one submit request,
\* for the current input, and no other request.
C6_AcceptedStartSubmitsOnce ==
    [][(StartAction /\ validateUrl(startUrl))
          => /\ loading'
             /\ errorMessage' = <<>>
             /\ Cardinality(submits') = Cardinality(submits) + 1
             /\ \E s \in submits' :
                   /\ submits' = submits \cup {s}
                   /\ s.seed = startUrl
             /\ fetches' = fetches]_vars

\* a start was accepted while an earlier one was still loading (Enter key)
C6_Witness ==
    /\ loading
    /\ errorMessage = <<>>
    /\ Cardinality(submits) = 2

\* C7: when a status fetch fails or returns 'failed', errorMessage is
\* non-empty, loading is false, the timer of the loop is cleared and taskId
\* is still the id of the task; a cleared timer stays cleared and issues no
\* further status fetch.
C7_PollFailureEndsLoop ==
    [][/\ \A f \in fetches :
             PollFails(f)
                => /\ errorMessage' # <<>>
                   /\ ~loading'
                   /\ timer'[f.gen] = "cleared"
                   /\ (taskId = f.id => taskId' = f.id)
       /\ \A g \in Gens :
             timer[g] = "cleared"
                => /\ timer'[g] = "cleared"
                   /\ issued'[g] = issued[g]
                   /\ \A f \in fetches' : f.gen = g => f \in fetches]_vars

\* the poll loop of the task taskId names has ended with a failure
C7_Witness ==
    \E g \in Gens :
       /\ timer[g] = "cleared"
       /\ taskId = pollId[g]
       /\ ~loading
       /\ Len(errorMessage) > 0
       /\ errorMessage[1] = "Network error: "
       /\ issued[g] >= 1

\* C8: when the submit request fails while the page is loading (and no other
\* request or poll loop is in progress), no poll loop is started, loading is
\* false, errorMessage is set, and taskId holds no task id.
C8_SubmitFailureHasNoHandle ==
    [][\A s \in submits :
          (/\ SubmitFails(s)
           /\ loading /\ submits = {s} /\ fetches = {} /\ ActiveTimers = {})
             => /\ timer'[s.gen] = "none"
                /\ ~loading'
                /\ errorMessage' # <<>>
                /\ taskId' = ""]_vars

\* C9: when all submit requests have settled and the latest start got its
\* task, taskId is the id of that task, whatever the order of the responses.
C9_LastStartWins ==
    (nstarts >= 1 /\ submits = {} /\ timer[nstarts] # "none")
       => taskId = TaskIdOf(nstarts)

\* C10: within one poll loop, the status responses are applied in the order
\* in which their fetches were issued.
C10_AppliedInIssueOrder ==
    [][\A g \in Gens :
          lastApplied'[g] # lastApplied[g] => lastApplied'[g] > lastApplied[g]]_vars

\* C11: a timer tick never issues a new status fetch while the previous
\* status fetch of the same loop is still unanswered: every poll loop has at
\* most one status fetch in flight.  setInterval fires every 2 seconds
\* whether or not the previous callback is still awaiting its response.
InFlightOf(g) == {f \in fetches : f.gen = g}

C11_OneFetchInFlight == \A g \in Gens : Cardinality(InFlightOf(g)) <= 1

\* C12: for a single task whose backend answers non-terminal k times and
\* then "completed", the response "completed" belongs to fetch k+1 and no
\* other fetch has been issued when it arrives (exactly k+1 fetches), and it
\* ends the task in Completed: taskId is the task's id, crawledData the
\* returned crawled_data, loading false.
C12_ExactPollCount ==
    [][\A f \in fetches :
          (/\ nstarts = 1
           /\ f.resp.ok
           /\ f.resp.body.status = "completed"
           /\ pollResume(f, TRUE, f.resp))
          => /\ issued[f.gen] = f.seq
             /\ taskStatus' = "completed"
             /\ taskId' = TaskIdOf(f.gen)
             /\ crawledData' = f.resp.body.crawled_data
             /\ ~loading']_vars

\* the 200 body of POST /start-crawl as the HTTP interface of the backend
\* defines it: the id of the new task is in the field taskId
ApiSubmitBodies(g, seed) ==
    { [taskId |-> TaskIdOf(g), status |-> "initiated", startUrl |-> seed] }

ApiSubmitResponses(g, seed) ==
    { [ok |-> TRUE, status |-> 200, body |-> b] : b \in ApiSubmitBodies(g, seed) }
    \cup { [ok |-> FALSE, status |-> 400, body |-> [error |-> "Invalid URL provided"]] }

\* a submit request settles against a backend that answers as documented
ApiSubmitSettles ==
    \E s \in submits :
       \/ /\ startCrawlResume(s, FALSE, NoResponse)
          /\ UNCHANGED backend
       \/ \E response \in ApiSubmitResponses(s.gen, s.seed) :
             /\ startCrawlResume(s, TRUE, response)
             /\ backend' = IF response.ok
                           THEN [backend EXCEPT ![s.gen] = "initiated"]
                           ELSE backend

NextApi ==
    \/ UrlChange
    \/ KeyPress
    \/ ClickStart
    \/ ApiSubmitSettles
    \/ TimerTick
    \/ BackendProgress
    \/ StatusSettles

\* the application against the backend of the documented HTTP interface
SpecApi == Init /\ [][NextApi]_vars

\* C13: after a successful submit whose response carries the id in the field
\* taskId, the id stored as taskId and queried by the poll loop of that task
\* is the id the backend returned, never undefined or another id.
C13_PollsReturnedId ==
    \A g \in Gens :
       timer[g] # "none" => pollId[g] = TaskIdOf(g) /\ taskId # Undefined

(* ------------------------------ teardown ------------------------------ *)

\* the App component is disposed (unmounted); App registers no cleanup, so
\* nothing else changes
Teardown ==
    /\ mounted
    /\ mounted' = FALSE
    /\ UNCHANGED uiVars
    /\ UNCHANGED netVars
    /\ UNCHANGED client

\* startCrawl after its await when the component is gone: the state setters
\* have no effect any more, checkTaskStatus still creates its timer
disposedStartCrawlResume(s, transportOk, response) ==
    LET r == startCrawlService(transportOk, response)
    IN  /\ submits' = submits \ {s}
        /\ IF ~r.threw
           THEN checkTaskStatus(s.gen, Field(r.data, "task_id"))
           ELSE UNCHANGED <<timer, pollId>>
        /\ UNCHANGED uiVars
        /\ UNCHANGED <<fetches, issued, lastApplied, seedOf, nstarts>>
        /\ UNCHANGED auxVars

\* the interval callback after its await when the component is gone: the
\* state setters have no effect any more, clearInterval still works
disposedPollResume(f, transportOk, response) ==
    LET r == checkTaskStatusService(transportOk, response)
        status == Field(r.data, "status")
    IN  /\ fetches' = fetches \ {f}
        /\ IF r.threw \/ status = "completed" \/ status = "failed"
           THEN timer' = [timer EXCEPT ![f.gen] = "cleared"]
           ELSE UNCHANGED timer
        /\ UNCHANGED uiVars
        /\ UNCHANGED <<submits, pollId, issued, lastApplied, backend, seedOf, nstarts>>
        /\ UNCHANGED auxVars

DisposedSubmitSettles ==
    /\ ~mounted
    /\ \E s \in submits :
          \/ /\ disposedStartCrawlResume(s, FALSE, NoResponse)
             /\ UNCHANGED backend
          \/ \E response \in SubmitResponses(s.gen, s.seed) :
                /\ disposedStartCrawlResume(s, TRUE, response)
                /\ backend' = IF response.ok
                              THEN [backend EXCEPT ![s.gen] = "initiated"]
                              ELSE backend

DisposedStatusSettles ==
    /\ ~mounted
    /\ \E f \in fetches :
          \/ disposedPollResume(f, FALSE, NoResponse)
          \/ disposedPollResume(f, TRUE, NotFound)
          \/ disposedPollResume(f, TRUE, ServerError)
          \/ disposedPollResume(f, TRUE, f.resp)

NextTeardown ==
    \/ mounted /\ Next
    \/ Teardown
    \/ ~mounted /\ TimerTick
    \/ ~mounted /\ BackendProgress
    \/ DisposedSubmitSettles
    \/ DisposedStatusSettles

\* the application with a teardown at any time
SpecTeardown == Init /\ [][NextTeardown]_vars

\* C14: after a teardown with no submit request under way, no status fetch
\* is issued and no state update is applied: the pending poll timers were
\* cancelled.
C14_TeardownCancelsTimer ==
    [][(~mounted /\ submits = {}) => issued' = issued /\ UNCHANGED uiVars]_vars

\* C15: the seed of a task is immutable once submitted: whenever the task
\* information is shown, the start URL shown with taskId is the seed that
\* was sent in the submit request of that task.
C15_ShownSeedIsSubmittedSeed ==
    (ShowsTaskInfo /\ TaskOfId(taskId) # 0) => startUrl = seedOf[TaskOfId(taskId)]

(* ------------------------- the task client alone ---------------------- *)

\* the calls of the two functions of crawlService: the function and its
\* argument
ClientCalls ==
    { [op |-> "startCrawl", arg |-> url] : url \in Inputs \cup {<<>>} }
    \cup { [op |-> "checkTaskStatus", arg |-> id] : id \in {"t1", "t2", Undefined} }

\* the HTTP request a call sends with fetch
RequestOf(call) ==
    IF call.op = "startCrawl"
    THEN [method |-> "POST", path |-> <<"/start-crawl">>,
          body |-> [start_url |-> call.arg]]
    ELSE [method |-> "GET", path |-> <<"/task-status/", call.arg>>,
          body |-> [none |-> TRUE]]

ClientStatuses == {200, 201, 400, 404, 500, 503}

ClientBodies ==
    { [task_id |-> "t1", status |-> "initiated"],
      [id |-> "t1", status |-> "in_progress"],
      [detail |-> "Task not found."] }

\* the responses a request can get; ok is true for the statuses 200 to 299
ClientResponses ==
    { [ok |-> (st \in 200 .. 299), status |-> st, body |-> b] :
        st \in ClientStatuses, b \in ClientBodies }

\* a function of crawlService is called: it sends its request with fetch
\* and awaits the response
ClientCall ==
    /\ client = NoCall
    /\ \E call \in ClientCalls :
          client' = [phase |-> "awaiting", call |-> call,
                     requests |-> <<RequestOf(call)>>]
    /\ UNCHANGED uiVars
    /\ UNCHANGED netVars
    /\ UNCHANGED mounted

\* the outcome of a call once its fetch has settled
ClientOutcome(call, transportOk, response) ==
    IF call.op = "startCrawl"
    THEN startCrawlService(transportOk, response)
    ELSE checkTaskStatusService(transportOk, response)

\* the fetch of the call settles and the function returns or throws
ClientSettle ==
    /\ client.phase = "awaiting"
    /\ \/ client' = [phase |-> "done", call |-> client.call,
                     requests |-> client.requests,
                     transportOk |-> FALSE, response |-> NoResponse,
                     result |-> ClientOutcome(client.call, FALSE, NoResponse)]
       \/ \E response \in ClientResponses :
             client' = [phase |-> "done", call |-> client.call,
                        requests |-> client.requests,
                        transportOk |-> TRUE, response |-> response,
                        result |-> ClientOutcome(client.call, TRUE, response)]
    /\ UNCHANGED uiVars
    /\ UNCHANGED netVars
    /\ UNCHANGED mounted

NextClient ==
    \/ ClientCall
    \/ ClientSettle

\* calls of the functions of crawlService with every outcome of the request
SpecClient == Init /\ [][NextClient]_vars

\* C16: a call of startCrawl or checkTaskStatus of crawlService has sent
\* exactly one HTTP request when it ends; it returns the body when the
\* response is OK and throws otherwise; a 404 on the status query throws
\* "Task not found.", every other non-OK status throws an HTTP error that
\* carries the status code.
C16_ClientSingleShot ==
    client.phase = "done" =>
       LET okResponse == client.transportOk /\ client.response.ok
           is404 == client.call.op = "checkTaskStatus" /\ client.response.status = 404
       IN  /\ client.requests = <<RequestOf(client.call)>>
           /\ okResponse => /\ ~client.result.threw
                            /\ client.result.data = client.response.body
           /\ ~okResponse => client.result.threw
           /\ (client.transportOk /\ ~client.response.ok /\ is404)
                 => client.result.message = <<"Task not found.">>
           /\ (client.transportOk /\ ~client.response.ok /\ ~is404)
                 => client.result.message
                       = <<"HTTP error! status: ", client.response.status>>

C16_Witness ==
    /\ client.phase = "done"
    /\ client.call.op = "checkTaskStatus"
    /\ client.transportOk
    /\ client.response.status = 404
    /\ client.result.threw
    /\ client.result.message = <<"Task not found.">>

(* --------------------- statuses the client does not know -------------- *)

\* a 200 answer to the status request f with a status that is none of the
\* four the application names
UnknownStatus(f) ==
    [ok |-> TRUE, status |-> 200,
     body |-> [id |-> f.id, status |-> "queued", startUrl |-> seedOf[f.gen]]]

\* a status fetch settles with such an answer
UnknownStatusSettles ==
    \E f \in fetches : pollResume(f, TRUE, UnknownStatus(f))

NextAnyStatus ==
    \/ UrlChange
    \/ KeyPress
    \/ ClickStart
    \/ SubmitSettles
    \/ TimerTick
    \/ BackendProgress
    \/ StatusSettles
    \/ UnknownStatusSettles

\* the application against a backend that also answers with other statuses
SpecAnyStatus == Init /\ [][NextAnyStatus]_vars

\* a 200 answer whose status is "completed" or "failed"
IsTerminal(response) ==
    response.ok /\ response.body.status \in {"completed", "failed"}

\* C17: a status response with a status other than "completed" or "failed"
\* (an unrecognised one included) sets taskStatus and leaves the timer and
\* loading as they are; a response "completed" or "failed", or a fetch error,
\* clears the timer of its loop.
C17_StopsExactlyOnTerminal ==
    [][\A f \in fetches :
          /\ \A response \in {f.resp, UnknownStatus(f)} :
                (response.ok /\ ~IsTerminal(response) /\ pollResume(f, TRUE, response))
                => /\ taskStatus' = response.body.status
                   /\ timer' = timer
                   /\ loading' = loading
          /\ (\/ IsTerminal(f.resp) /\ pollResume(f, TRUE, f.resp)
              \/ PollFails(f))
             => timer'[f.gen] = "cleared"]_vars

C17_Witness ==
    \E g \in Gens :
       /\ taskStatus = "queued"
       /\ lastApplied[g] >= 1
       /\ timer[g] = "active"
       /\ loading
       /\ ActiveTimers = {g}

(* ------------------------------ liveness ------------------------------ *)

\* status requests of one poll loop that can be unanswered at once; a tick
\* that finds them all unanswered is passed over
MaxInFlight == 2

Slots == 1 .. MaxInFlight

FreeSlots(g) == {k \in Slots : \A f \in InFlightOf(g) : f.seq # k}

\* the interval callback up to its await, with the requests of a loop told
\* apart by the slot they occupy while they are unanswered and not by a
\* running number, so that the loop can tick for ever
pollTickLive(g, answer) ==
    /\ timer[g] = "active"
    /\ FreeSlots(g) # {}
    /\ LET k == CHOOSE n \in FreeSlots(g) : \A m \in FreeSlots(g) : n <= m
       IN  fetches' = fetches \cup
              {[gen |-> g, seq |-> k, id |-> pollId[g], resp |-> answer]}
    /\ UNCHANGED uiVars
    /\ UNCHANGED <<submits, timer, pollId, issued, lastApplied, backend, seedOf, nstarts>>
    /\ UNCHANGED auxVars

TimerTickLive ==
    \E g \in Gens : pollTickLive(g, StatusAnswer(pollId[g]))

\* the status request of loop g in slot k settles: the transport fails or
\* the answer of the backend arrives
StatusSettlesOf(g, k) ==
    \E f \in fetches :
       /\ f.gen = g
       /\ f.seq = k
       /\ \/ pollResume(f, FALSE, NoResponse)
          \/ pollResume(f, TRUE, f.resp)

StatusSettlesLive ==
    \E g \in Gens, k \in Slots : StatusSettlesOf(g, k)

\* the user types a URL that the validator accepts
UrlChangeValid ==
    \E value \in {v \in Inputs : validateUrl(v)} : handleUrlChange(value)

NextLive ==
    \/ UrlChangeValid
    \/ KeyPress
    \/ ClickStart
    \/ SubmitSettles
    \/ TimerTickLive
    \/ BackendProgress
    \/ StatusSettlesLive

\* every request gets its response or its error, every active timer keeps
\* firing, and the crawl of a polled task goes on to its end
Fairness ==
    /\ WF_vars(SubmitSettles)
    /\ WF_vars(BackendProgress)
    /\ \A g \in Gens : WF_vars(pollTickLive(g, StatusAnswer(pollId[g])))
    /\ \A g \in Gens, k \in Slots : WF_vars(StatusSettlesOf(g, k))

SpecLive == Init /\ [][NextLive]_vars /\ Fairness

\* C18: when every request gets a response or an error, timer ticks are
\* fair and the backend brings the task to "completed" or "failed", an
\* accepted start (loading is true) leads to a state where loading is false
\* and no poll timer is active.
C18_EventuallyIdle == loading ~> (~loading /\ ActiveTimers = {})

C18_Witness ==
    /\ ~loading
    /\ ActiveTimers = {}
    /\ nstarts = MaxStarts
    /\ submits = {}
    /\ \A g \in Gens : timer[g] = "cleared"
    /\ taskStatus = "completed"

\* C19: whenever loading is false nothing is in progress: no submit request
\* is in flight and no poll timer is active.
C19_IdleMeansNothingInProgress ==
    ~loading => submits = {} /\ ActiveTimers = {}

\* C20: whenever taskStatus is "completed", crawledData is the crawled_data
\* that the backend returned for the task that taskId names.
C20_ResultOfCurrentTask ==
    taskStatus = "completed" =>
       /\ TaskOfId(taskId) # 0
       /\ crawledData = CrawledDataOf(TaskOfId(taskId), seedOf[TaskOfId(taskId)])

(* --------------------------- button only ------------------------------ *)

NextButton ==
    \/ UrlChange
    \/ ClickStart
    \/ SubmitSettles
    \/ TimerTick
    \/ BackendProgress
    \/ StatusSettles

\* the application when crawls are started with the Start button only
SpecButton == Init /\ [][NextButton]_vars

\* C21: when starts are issued only through the Start button, a start can
\* happen (the button is enabled) only when no submit request is in flight
\* and no poll timer is active, so that at most one poll timer is active.
C21_ButtonStartsWhenIdle ==
    /\ ~ButtonDisabled => submits = {} /\ ActiveTimers = {}
    /\ Cardinality(ActiveTimers) <= 1
====
